---- MODULE Spec2Model ----
(***************************************************************************)
(* Webhook intake and relay pipeline of src/whatsapp.py.                   *)
(*                                                                         *)
(* A POST /webhook request (receive_message) parses its JSON body, starts  *)
(* a background thread running process() and returns "ok", 200.  process() *)
(* walks the entry/changes envelope, and for the first message of every    *)
(* change with a non-empty messages array checks the global set            *)
(* processed_message_ids, adds the id, posts the text to the AI model and  *)
(* posts the reply to the WhatsApp send API.                               *)
(*                                                                         *)
(* JSON values are tagged records:                                         *)
(*   [t |-> "str", s |-> "..."]   a string                                 *)
(*   [t |-> "null", s |-> ""]     null                                     *)
(*   [t |-> "arr", a |-> <<..>>]  an array                                 *)
(*   [t |-> "obj", f |-> [..]]    an object (f maps keys to values)        *)
(* and [t |-> "raise"] stands for a Python exception raised while          *)
(* evaluating an expression.                                               *)
(***************************************************************************)
EXTENDS Integers, Sequences, FiniteSets, TLC

\* Number of POST deliveries in a behaviour.
MaxDeliveries == 2

Deliveries == 1..MaxDeliveries

----------------------------------------------------------------------------
\* JSON values

JStr(s) == [t |-> "str", s |-> s]

JNull == [t |-> "null", s |-> ""]

JArr(a) == [t |-> "arr", a |-> a]

JObj(f) == [t |-> "obj", f |-> f]

EmptyObj == [t |-> "obj", f |-> <<>>]

Raise == [t |-> "raise"]

IsRaise(v) == v.t = "raise"

----------------------------------------------------------------------------
\* Python operations used by process()

\* d.get(k, default): AttributeError unless d is a dict
DictGet(v, k, default) ==
    IF IsRaise(v) \/ v.t # "obj" THEN Raise
    ELSE IF k \in DOMAIN v.f THEN v.f[k] ELSE default

\* d[k]: KeyError when the key is missing, TypeError when d is not a dict
Subscript(v, k) ==
    IF IsRaise(v) \/ v.t # "obj" THEN Raise
    ELSE IF k \in DOMAIN v.f THEN v.f[k] ELSE Raise

\* bool(v), as tested by "if messages:"
Truthy(v) ==
    CASE v.t = "arr" -> Len(v.a) > 0
      [] v.t = "obj" -> DOMAIN v.f # {}
      [] v.t = "str" -> v.s # ""
      [] OTHER -> FALSE

\* FirstOf taking the last element of a list instead of the first
FirstOf_Last(v) ==
    CASE v.t = "arr" -> v.a[Len(v.a)]
      [] v.t = "str" -> v
      [] OTHER -> Raise

\* v[0], for a truthy v: the first element of a list, the first character
\* of a string (itself a string), KeyError on a dict
FirstOf(v) ==
    CASE v.t = "arr" -> v.a[1]
      [] v.t = "str" -> v
      [] OTHER -> Raise

\* The values "for x in v" binds x to.  A dict yields its keys and a string
\* its characters (strings, on which .get raises at once, so one stands for
\* all); None is not iterable, which raises before the first iteration.
Iter(v) ==
    CASE IsRaise(v) -> <<Raise>>
      [] v.t = "arr" -> v.a
      [] v.t = "obj" -> IF DOMAIN v.f = {} THEN <<>> ELSE <<JStr("key")>>
      [] v.t = "str" -> IF v.s = "" THEN <<>> ELSE <<v>>
      [] OTHER -> <<Raise>>

\* hash(v) succeeds: lists and dicts are unhashable
Hashable(v) == v.t \in {"str", "null"}

----------------------------------------------------------------------------
\* Configuration and payloads

AI_MODEL_USER_ID == "6fbf1e44-0a13-4e59-8eb6-303a9a9be8b0"

\* A message {id, from, text: {body}}
Message(id, from, body) ==
    JObj([id |-> JStr(id), from |-> JStr(from),
          text |-> JObj([body |-> JStr(body)])])

\* A change {value: {messages: [...]}}
Change(msgs) == JObj([value |-> JObj([messages |-> JArr(msgs)])])

\* An entry {changes: [...]}
Entry(changes) == JObj([changes |-> JArr(changes)])

\* The envelope {entry: [...]}
Envelope(entries) == JObj([entry |-> JArr(entries)])

M1 == Message("m1", "s1", "hello")

M2 == Message("m2", "s2", "hi")

\* The JSON bodies a POST may carry (request.get_json() results).
Payloads ==
    << Envelope(<<Entry(<<Change(<<M1>>)>>)>>),
       Envelope(<<Entry(<<Change(<<M2>>)>>)>>),
       \* two entries, one message each
       Envelope(<<Entry(<<Change(<<M1>>)>>), Entry(<<Change(<<M2>>)>>)>>),
       \* one change carrying two messages
       Envelope(<<Entry(<<Change(<<M1, M2>>)>>)>>),
       \* a change without messages before a change with one
       Envelope(<<Entry(<<Change(<<>>), Change(<<M2>>)>>)>>),
       \* a well-formed entry followed by an entry that is not an object
       Envelope(<<Entry(<<Change(<<M1>>)>>), JStr("x")>>),
       \* no entry / not an object / null
       EmptyObj,
       JArr(<<>>),
       JNull,
       \* entry without changes, change without value, empty messages
       Envelope(<<EmptyObj>>),
       Envelope(<<Entry(<<EmptyObj>>)>>),
       Envelope(<<Entry(<<Change(<<>>)>>)>>),
       \* first message missing id, from, text, text.body
       Envelope(<<Entry(<<Change(<<JObj([from |-> JStr("s1"),
            text |-> JObj([body |-> JStr("hello")])])>>)>>)>>),
       Envelope(<<Entry(<<Change(<<JObj([id |-> JStr("m1"),
            text |-> JObj([body |-> JStr("hello")])])>>)>>)>>),
       Envelope(<<Entry(<<Change(<<JObj([id |-> JStr("m1"),
            from |-> JStr("s1")])>>)>>)>>),
       Envelope(<<Entry(<<Change(<<JObj([id |-> JStr("m1"),
            from |-> JStr("s1"), text |-> EmptyObj])>>)>>)>>),
       \* the id is a list (unhashable)
       Envelope(<<Entry(<<Change(<<JObj([id |-> JArr(<<>>),
            from |-> JStr("s1"),
            text |-> JObj([body |-> JStr("hello")])])>>)>>)>>),
       \* the same message twice, then another one
       Envelope(<<Entry(<<Change(<<M1>>), Change(<<M1>>),
                          Change(<<M2>>)>>)>>) >>

PayloadIds == 1..Len(Payloads)

----------------------------------------------------------------------------
\* The loops of process()

RECURSIVE Flatten(_)
\* concatenation of a sequence of sequences
Flatten(ss) == IF ss = <<>> THEN <<>> ELSE Head(ss) \o Flatten(Tail(ss))

\* The changes the inner loop body is entered with, in order:
\*   for entry in data.get("entry", []):
\*       for change in entry.get("changes", []):
\* An element Raise is an exception raised by the loop headers at that point.
Changes(body) ==
    LET entries == Iter(DictGet(body, "entry", JArr(<<>>)))
    IN Flatten([i \in 1..Len(entries) |->
                  Iter(DictGet(entries[i], "changes", JArr(<<>>)))])

\* Extract reading the fields with .get: a missing from or text.body becomes
\* an empty string instead of raising
Extract_Lenient(change) ==
    LET value == DictGet(change, "value", EmptyObj)
        messages == DictGet(value, "messages", JArr(<<>>))
        message == FirstOf(messages)
        id == Subscript(message, "id")
        from == DictGet(message, "from", JStr(""))
        body == DictGet(DictGet(message, "text", EmptyObj), "body", JStr(""))
    IN IF IsRaise(messages) THEN [kind |-> "raise"]
       ELSE IF ~Truthy(messages) THEN [kind |-> "none"]
       ELSE IF IsRaise(message) \/ IsRaise(id) \/ IsRaise(from)
               \/ IsRaise(body) THEN [kind |-> "raise"]
       ELSE [kind |-> "msg", msg_id |-> id, sender |-> from, text |-> body]

\* The loop body up to the dedup check, for one change:
\* "none" when the change has no messages, "raise" when an expression
\* raises, otherwise the three extracted fields.
Extract(change) ==
    LET value == DictGet(change, "value", EmptyObj)
        messages == DictGet(value, "messages", JArr(<<>>))
        message == FirstOf(messages)
        id == Subscript(message, "id")
        from == Subscript(message, "from")
        body == Subscript(Subscript(message, "text"), "body")
    IN IF IsRaise(messages) THEN [kind |-> "raise"]
       ELSE IF ~Truthy(messages) THEN [kind |-> "none"]
       ELSE IF IsRaise(message) \/ IsRaise(id) \/ IsRaise(from)
               \/ IsRaise(body) THEN [kind |-> "raise"]
       ELSE [kind |-> "msg", msg_id |-> id, sender |-> from, text |-> body]

\* no message extracted yet
NoMsg == [kind |-> "none"]

\* What the loop body extracts in each pass over a body, in order; a pass in
\* which a loop header raises counts as "raise".
Extracts(body) ==
    LET cs == Changes(body)
    IN [i \in 1..Len(cs) |->
          IF IsRaise(cs[i]) THEN [kind |-> "raise"] ELSE Extract(cs[i])]

\* Extracts of every payload
PayloadExtracts == [p \in PayloadIds |-> Extracts(Payloads[p])]

----------------------------------------------------------------------------
\* The two outbound calls

\* What requests.post(AI_MODEL_API, ...) can come back with: an exception
\* (exc), or a response with a status code and a body; json is the result of
\* ai_response.json(), Raise when the body is not JSON.
AiResponses ==
    << [exc |-> FALSE, status |-> 200, json |-> JObj([response |-> JStr("r1")])],
       [exc |-> FALSE, status |-> 200, json |-> EmptyObj],
       [exc |-> FALSE, status |-> 200, json |-> JArr(<<>>)],
       [exc |-> FALSE, status |-> 200, json |-> Raise],
       [exc |-> FALSE, status |-> 500, json |-> Raise],
       [exc |-> TRUE, status |-> 0, json |-> Raise] >>

NO_RESPONSE_FROM_MODEL == JStr("⚠ No response from model.")

AI_SERVICE_FAILED == JStr("⚠ AI service failed.")

AI_UNAVAILABLE == JStr("⚠ AI unavailable.")

\* ModelReply with the texts of the else branch and the except clause swapped
ModelReply_Swapped(r) ==
    IF r.exc THEN AI_SERVICE_FAILED
    ELSE IF r.status = 200
         THEN LET reply == DictGet(r.json, "response", NO_RESPONSE_FROM_MODEL)
              IN IF IsRaise(reply) THEN AI_SERVICE_FAILED ELSE reply
         ELSE AI_UNAVAILABLE

\* model_reply as computed from the outcome of the AI call
ModelReply(r) ==
    IF r.exc THEN AI_UNAVAILABLE
    ELSE IF r.status = 200
         THEN LET reply == DictGet(r.json, "response", NO_RESPONSE_FROM_MODEL)
              IN IF IsRaise(reply) THEN AI_UNAVAILABLE ELSE reply
         ELSE AI_SERVICE_FAILED

\* What requests.post(".../messages", ...) can come back with.
SendResponses ==
    << [exc |-> FALSE, status |-> 200],
       [exc |-> FALSE, status |-> 401],
       [exc |-> TRUE, status |-> 0] >>

\* the body of the send request
SendPayload(sender, reply) ==
    [messaging_product |-> "whatsapp", to |-> sender, type |-> "text",
     text |-> [body |-> reply]]

\* the form fields of the AI request
AiForm(text) == [question |-> text, user_id |-> AI_MODEL_USER_ID]

\* the HTTP response of receive_message
HttpOk == [status |-> 200, body |-> "ok"]

NoHttp == [status |-> 0, body |-> ""]

NoCall == [kind |-> "none"]

----------------------------------------------------------------------------
\* State

VARIABLES
    processed_message_ids,  \* the global dedup set
    data,           \* data[d]: index in Payloads of the body of POST d, 0 before it arrives
    hpc,            \* hpc[d]: "idle", "started" (thread started), "returned"
    http,           \* http[d]: the HTTP response of POST d
    wpc,            \* wpc[d]: position of process(): "idle", "loop", "add", "ai", "send", "done"
    idx,            \* idx[d]: number of the next pass of the loops
    msg,            \* msg[d]: msg_id, sender, text of the current message
    ai_request,     \* ai_request[d]: the last AI request of d
    ai_response,    \* ai_response[d]: index in AiResponses of its outcome, 0 while outstanding
    model_reply,    \* model_reply[d]
    send_request,   \* send_request[d]: the last send request of d
    send_response,  \* send_response[d]: index in SendResponses of its outcome, 0 while outstanding
    exit,           \* exit[d]: how process() ended: "", "end", "duplicate", "exception"
    nAi,            \* nAi[d]: number of AI requests issued by d
    nSend,          \* nSend[d]: number of send requests issued by d
    answered,       \* answered[d]: the ids d passed the dedup check with
    replay,         \* replay[d]: the first id of d's payload was recorded when d arrived
    after_failure,  \* after_failure[d]: some delivery had failed when d arrived
    get_request,    \* the query parameters of the last GET /webhook
    get_response    \* the HTTP response to it

vars == << processed_message_ids, data, hpc, http, wpc, idx, msg, ai_request,
           ai_response, model_reply, send_request, send_response, exit, nAi,
           nSend, answered, replay, after_failure, get_request, get_response >>

\* the state of GET /webhook
getvars == << get_request, get_response >>

\* no GET request yet
NoGet == [kind |-> "none"]

\* the first message process() extracts from payload p (NoMsg if none)
FirstMessage(p) ==
    LET xs == PayloadExtracts[p]
        qualifying == {i \in 1..Len(xs) : xs[i].kind # "none"}
    IN IF qualifying = {} THEN NoMsg
       ELSE LET i == CHOOSE j \in qualifying : \A k \in qualifying : j <= k
            IN IF xs[i].kind = "msg" THEN xs[i] ELSE NoMsg

Init ==
    /\ processed_message_ids = {}
    /\ data = [d \in Deliveries |-> 0]
    /\ hpc = [d \in Deliveries |-> "idle"]
    /\ http = [d \in Deliveries |-> NoHttp]
    /\ wpc = [d \in Deliveries |-> "idle"]
    /\ idx = [d \in Deliveries |-> 1]
    /\ msg = [d \in Deliveries |-> NoMsg]
    /\ ai_request = [d \in Deliveries |-> NoCall]
    /\ ai_response = [d \in Deliveries |-> 0]
    /\ model_reply = [d \in Deliveries |-> JNull]
    /\ send_request = [d \in Deliveries |-> NoCall]
    /\ send_response = [d \in Deliveries |-> 0]
    /\ exit = [d \in Deliveries |-> ""]
    /\ nAi = [d \in Deliveries |-> 0]
    /\ nSend = [d \in Deliveries |-> 0]
    /\ answered = [d \in Deliveries |-> {}]
    /\ replay = [d \in Deliveries |-> FALSE]
    /\ after_failure = [d \in Deliveries |-> FALSE]
    /\ get_request = NoGet
    /\ get_response = NoHttp

----------------------------------------------------------------------------
\* POST /webhook

\* Delivery e has failed: its worker ended in the except clause or as a
\* duplicate, its AI request ended with a fallback reply, or its send request
\* raised or was answered with a status other than 200.
HasFailed(e) ==
    \/ exit[e] \in {"exception", "duplicate"}
    \/ /\ ai_response[e] # 0
       /\ ModelReply(AiResponses[ai_response[e]])
             \in {NO_RESPONSE_FROM_MODEL, AI_SERVICE_FAILED, AI_UNAVAILABLE}
    \/ /\ send_response[e] # 0
       /\ \/ SendResponses[send_response[e]].exc
          \/ SendResponses[send_response[e]].status # 200

\* receive_message up to Thread(target=process).start(): the body is parsed
\* and the worker thread of the delivery starts.  Deliveries are numbered in
\* the order in which they arrive.
ReceiveMessage(d, p) ==
    /\ hpc[d] = "idle"
    /\ d > 1 => hpc[d - 1] # "idle"
    /\ data' = [data EXCEPT ![d] = p]
    /\ hpc' = [hpc EXCEPT ![d] = "started"]
    /\ wpc' = [wpc EXCEPT ![d] = "loop"]
    /\ replay' = [replay EXCEPT ![d] =
                    LET m == FirstMessage(p)
                    IN m.kind = "msg" /\ m.msg_id \in processed_message_ids]
    /\ after_failure' = [after_failure EXCEPT ![d] =
                           \E e \in Deliveries : HasFailed(e)]
    /\ UNCHANGED << getvars, processed_message_ids, http, idx, msg, ai_request,
                    ai_response, model_reply, send_request, send_response,
                    exit, nAi, nSend, answered >>

\* Respond when process() is called in the request thread and its outer
\* try/except is missing: the response waits for process() and an exception
\* becomes a 500
Respond_Propagating(d) ==
    /\ hpc[d] = "started"
    /\ wpc[d] = "done"
    /\ http' = [http EXCEPT ![d] =
                  IF exit[d] = "exception"
                  THEN [status |-> 500, body |-> "Internal Server Error"]
                  ELSE HttpOk]
    /\ hpc' = [hpc EXCEPT ![d] = "returned"]
    /\ UNCHANGED << getvars, after_failure, processed_message_ids, data, wpc, idx, msg, ai_request,
                    ai_response, model_reply, send_request, send_response,
                    exit, nAi, nSend, answered, replay >>

\* Respond when the handler joins the worker thread before it returns
Respond_Joined(d) ==
    /\ hpc[d] = "started"
    /\ wpc[d] = "done"
    /\ http' = [http EXCEPT ![d] = HttpOk]
    /\ hpc' = [hpc EXCEPT ![d] = "returned"]
    /\ UNCHANGED << getvars, after_failure, processed_message_ids, data, wpc, idx, msg, ai_request,
                    ai_response, model_reply, send_request, send_response,
                    exit, nAi, nSend, answered, replay >>

\* return "ok", 200
Respond(d) ==
    /\ hpc[d] = "started"
    /\ http' = [http EXCEPT ![d] = HttpOk]
    /\ hpc' = [hpc EXCEPT ![d] = "returned"]
    /\ UNCHANGED << getvars, after_failure, processed_message_ids, data, wpc, idx, msg, ai_request,
                    ai_response, model_reply, send_request, send_response,
                    exit, nAi, nSend, answered, replay >>

----------------------------------------------------------------------------
\* process()

\* Pass without the membership test
Pass_NoDedup(p, i, ids) ==
    LET xs == PayloadExtracts[p]
    IN IF i > Len(xs) THEN [kind |-> "end"]
       ELSE LET x == xs[i]
            IN CASE x.kind = "raise" -> [kind |-> "exception"]
                 [] x.kind = "none" -> [kind |-> "none"]
                 [] ~Hashable(x.msg_id) -> [kind |-> "exception", m |-> x]
                 [] OTHER -> [kind |-> "fresh", m |-> x]

\* Pass with "continue" in place of "return" at a duplicate: the loops go on
\* to the next change
Pass_SkipDuplicate(p, i, ids) ==
    LET xs == PayloadExtracts[p]
    IN IF i > Len(xs) THEN [kind |-> "end"]
       ELSE LET x == xs[i]
            IN CASE x.kind = "raise" -> [kind |-> "exception"]
                 [] x.kind = "none" -> [kind |-> "none"]
                 [] ~Hashable(x.msg_id) -> [kind |-> "exception", m |-> x]
                 [] x.msg_id \in ids -> [kind |-> "none"]
                 [] OTHER -> [kind |-> "fresh", m |-> x]

\* One pass of the loops, from the loop headers to the membership test
\* "msg_id in processed_message_ids", in pass i over payload p, with the
\* set as it is now:
\*   "end"        the loops are exhausted
\*   "exception"  an expression raised (caught by the outer except clause)
\*   "none"       the change has no messages: next change
\*   "duplicate"  the id is in the set: return
\*   "fresh"      the id is not in the set
Pass(p, i, ids) ==
    LET xs == PayloadExtracts[p]
    IN IF i > Len(xs) THEN [kind |-> "end"]
       ELSE LET x == xs[i]
            IN CASE x.kind = "raise" -> [kind |-> "exception"]
                 [] x.kind = "none" -> [kind |-> "none"]
                 [] ~Hashable(x.msg_id) -> [kind |-> "exception", m |-> x]
                 [] x.msg_id \in ids -> [kind |-> "duplicate", m |-> x]
                 [] OTHER -> [kind |-> "fresh", m |-> x]

\* Iterate in a process that an exception of a worker has brought down: a
\* worker that runs after another one ended in the except clause ends at
\* once without handling its body
Iterate_AfterCrash(d) ==
    /\ wpc[d] = "loop"
    /\ LET s == IF \E e \in Deliveries : e # d /\ exit[e] = "exception"
                THEN [kind |-> "end"]
                ELSE Pass(data[d], idx[d], processed_message_ids)
       IN /\ wpc' = [wpc EXCEPT ![d] =
                       CASE s.kind = "none" -> "loop"
                         [] s.kind = "fresh" -> "add"
                         [] OTHER -> "done"]
          /\ exit' = [exit EXCEPT ![d] =
                        IF s.kind \in {"end", "exception", "duplicate"}
                        THEN s.kind ELSE @]
          /\ idx' = [idx EXCEPT ![d] = IF s.kind = "none" THEN @ + 1 ELSE @]
          /\ msg' = [msg EXCEPT ![d] = IF "m" \in DOMAIN s THEN s.m ELSE @]
    /\ UNCHANGED << getvars, after_failure, processed_message_ids, data, hpc, http, ai_request,
                    ai_response, model_reply, send_request, send_response,
                    nAi, nSend, answered, replay >>

\* Iterate with the id recorded as soon as message["id"] has been read: a
\* message whose from or text.body is missing leaves its id in the ledger
Iterate_IdFirst(d) ==
    /\ wpc[d] = "loop"
    /\ LET s == Pass(data[d], idx[d], processed_message_ids)
           cs == Changes(Payloads[data[d]])
           messages == DictGet(DictGet(cs[idx[d]], "value", EmptyObj),
                               "messages", JArr(<<>>))
           id == IF Truthy(messages)
                 THEN Subscript(FirstOf(messages), "id") ELSE Raise
       IN /\ wpc' = [wpc EXCEPT ![d] =
                       CASE s.kind = "none" -> "loop"
                         [] s.kind = "fresh" -> "add"
                         [] OTHER -> "done"]
          /\ exit' = [exit EXCEPT ![d] =
                        IF s.kind \in {"end", "exception", "duplicate"}
                        THEN s.kind ELSE @]
          /\ idx' = [idx EXCEPT ![d] = IF s.kind = "none" THEN @ + 1 ELSE @]
          /\ msg' = [msg EXCEPT ![d] = IF "m" \in DOMAIN s THEN s.m ELSE @]
          /\ processed_message_ids' =
                IF s.kind = "exception" /\ ~IsRaise(id) /\ Hashable(id)
                THEN processed_message_ids \cup {id}
                ELSE processed_message_ids
    /\ UNCHANGED << getvars, after_failure, data, hpc, http, ai_request,
                    ai_response, model_reply, send_request, send_response,
                    nAi, nSend, answered, replay >>

\* process() runs one pass of its loops.
Iterate(d) ==
    /\ wpc[d] = "loop"
    /\ LET s == Pass(data[d], idx[d], processed_message_ids)
       IN /\ wpc' = [wpc EXCEPT ![d] =
                       CASE s.kind = "none" -> "loop"
                         [] s.kind = "fresh" -> "add"
                         [] OTHER -> "done"]
          /\ exit' = [exit EXCEPT ![d] =
                        IF s.kind \in {"end", "exception", "duplicate"}
                        THEN s.kind ELSE @]
          /\ idx' = [idx EXCEPT ![d] = IF s.kind = "none" THEN @ + 1 ELSE @]
          /\ msg' = [msg EXCEPT ![d] = IF "m" \in DOMAIN s THEN s.m ELSE @]
    /\ UNCHANGED << getvars, after_failure, processed_message_ids, data, hpc, http, ai_request,
                    ai_response, model_reply, send_request, send_response,
                    nAi, nSend, answered, replay >>

\* Add without line 56: the AI request is issued for an id that is not
\* recorded
Add_Unrecorded(d) ==
    /\ wpc[d] = "add"
    /\ answered' = [answered EXCEPT ![d] = @ \cup {msg[d].msg_id}]
    /\ ai_request' = [ai_request EXCEPT ![d] = AiForm(msg[d].text)]
    /\ ai_response' = [ai_response EXCEPT ![d] = 0]
    /\ nAi' = [nAi EXCEPT ![d] = @ + 1]
    /\ wpc' = [wpc EXCEPT ![d] = "ai"]
    /\ UNCHANGED << getvars, after_failure, processed_message_ids, data, hpc, http, idx, msg, model_reply, send_request,
                    send_response, exit, nSend, replay >>

\* processed_message_ids.add(msg_id), then the AI request is issued
Add(d) ==
    /\ wpc[d] = "add"
    /\ processed_message_ids' = processed_message_ids \cup {msg[d].msg_id}
    /\ answered' = [answered EXCEPT ![d] = @ \cup {msg[d].msg_id}]
    /\ ai_request' = [ai_request EXCEPT ![d] = AiForm(msg[d].text)]
    /\ ai_response' = [ai_response EXCEPT ![d] = 0]
    /\ nAi' = [nAi EXCEPT ![d] = @ + 1]
    /\ wpc' = [wpc EXCEPT ![d] = "ai"]
    /\ UNCHANGED << getvars, after_failure, data, hpc, http, idx, msg, model_reply, send_request,
                    send_response, exit, nSend, replay >>

\* AiReturn with the sender kept in one place shared by the workers: the send
\* request goes to the sender of another delivery in progress, if any
AiReturn_CrossWired(d, r) ==
    /\ wpc[d] = "ai"
    /\ ai_response' = [ai_response EXCEPT ![d] = r]
    /\ model_reply' = [model_reply EXCEPT ![d] = ModelReply(AiResponses[r])]
    /\ send_request' = [send_request EXCEPT ![d] =
                          LET others == {e \in Deliveries :
                                           e # d /\ wpc[e] \in {"ai", "send"}}
                              o == IF others = {} THEN d
                                   ELSE CHOOSE e \in others : TRUE
                          IN SendPayload(msg[o].sender, model_reply'[d])]
    /\ send_response' = [send_response EXCEPT ![d] = 0]
    /\ nSend' = [nSend EXCEPT ![d] = @ + 1]
    /\ wpc' = [wpc EXCEPT ![d] = "send"]
    /\ UNCHANGED << getvars, after_failure, processed_message_ids, data, hpc, http, idx, msg,
                    ai_request, exit, nAi, answered, replay >>

\* The AI request concludes with outcome AiResponses[r]: model_reply is set
\* and the send request is issued.
AiReturn(d, r) ==
    /\ wpc[d] = "ai"
    /\ ai_response' = [ai_response EXCEPT ![d] = r]
    /\ model_reply' = [model_reply EXCEPT ![d] = ModelReply(AiResponses[r])]
    /\ send_request' = [send_request EXCEPT ![d] =
                          SendPayload(msg[d].sender, model_reply'[d])]
    /\ send_response' = [send_response EXCEPT ![d] = 0]
    /\ nSend' = [nSend EXCEPT ![d] = @ + 1]
    /\ wpc' = [wpc EXCEPT ![d] = "send"]
    /\ UNCHANGED << getvars, after_failure, processed_message_ids, data, hpc, http, idx, msg,
                    ai_request, exit, nAi, answered, replay >>

\* SendReturn with the exception of the send request caught next to the
\* call: the loops go on after a send that raised
SendReturn_Swallowed(d, r) ==
    /\ wpc[d] = "send"
    /\ send_response' = [send_response EXCEPT ![d] = r]
    /\ wpc' = [wpc EXCEPT ![d] = "loop"]
    /\ idx' = [idx EXCEPT ![d] = @ + 1]
    /\ UNCHANGED << getvars, after_failure, processed_message_ids, data, hpc, http, msg, ai_request,
                    ai_response, model_reply, send_request, nAi, nSend,
                    answered, replay, exit >>

\* The send request concludes with outcome SendResponses[r]: an exception
\* ends process() in the outer except clause, a response of any status is
\* printed and the loops go on.
SendReturn(d, r) ==
    /\ wpc[d] = "send"
    /\ send_response' = [send_response EXCEPT ![d] = r]
    /\ wpc' = [wpc EXCEPT ![d] = IF SendResponses[r].exc THEN "done" ELSE "loop"]
    /\ exit' = [exit EXCEPT ![d] = IF SendResponses[r].exc THEN "exception" ELSE @]
    /\ idx' = [idx EXCEPT ![d] = IF SendResponses[r].exc THEN @ ELSE @ + 1]
    /\ UNCHANGED << getvars, after_failure, processed_message_ids, data, hpc, http, msg, ai_request,
                    ai_response, model_reply, send_request, nAi, nSend,
                    answered, replay >>

----------------------------------------------------------------------------
\* GET /webhook

VERIFY_TOKEN == "@Naveen123"

\* The values request.args.get(...) gives for a query parameter: None when
\* the parameter is absent (JNull), otherwise its string.
ModeArgs == {JNull, JStr("subscribe"), JStr("unsubscribe")}

TokenArgs == {JNull, JStr(VERIFY_TOKEN), JStr("wrong")}

ChallengeArgs == {JNull, JStr("c1")}

\* The value verify() returns for the three query parameters.
verify(mode, token, challenge) ==
    IF mode = JStr("subscribe") /\ token = JStr(VERIFY_TOKEN)
    THEN [body |-> challenge, status |-> 200]
    ELSE [body |-> JStr("Verification failed"), status |-> 403]

\* The HTTP response Flask makes of the (body, status) a view returns: a
\* body of None is not a valid response (TypeError), answered with a 500.
ViewResponse(rv) ==
    IF rv.body = JNull
    THEN [status |-> 500, body |-> "Internal Server Error"]
    ELSE [status |-> rv.status, body |-> rv.body.s]

\* Verify with a ledger that a successful verification starts afresh
Verify_Clearing(mode, token, challenge) ==
    /\ get_request' = [kind |-> "get", mode |-> mode, token |-> token,
                       challenge |-> challenge]
    /\ get_response' = ViewResponse(verify(mode, token, challenge))
    /\ processed_message_ids' =
          IF verify(mode, token, challenge).status = 200
          THEN {} ELSE processed_message_ids
    /\ UNCHANGED << data, hpc, http, wpc, idx, msg,
                    ai_request, ai_response, model_reply, send_request,
                    send_response, exit, nAi, nSend, answered, replay,
                    after_failure >>

\* One GET /webhook request.
Verify(mode, token, challenge) ==
    /\ get_request' = [kind |-> "get", mode |-> mode, token |-> token,
                       challenge |-> challenge]
    /\ get_response' = ViewResponse(verify(mode, token, challenge))
    /\ UNCHANGED << processed_message_ids, data, hpc, http, wpc, idx, msg,
                    ai_request, ai_response, model_reply, send_request,
                    send_response, exit, nAi, nSend, answered, replay,
                    after_failure >>

----------------------------------------------------------------------------

\* The steps of the program with the POST bodies drawn from P.
NextOver(P) ==
    \/ \E d \in Deliveries, p \in P : ReceiveMessage(d, p)
    \/ \E d \in Deliveries : Respond(d)
    \/ \E d \in Deliveries : Iterate(d)
    \/ \E d \in Deliveries : Add(d)
    \/ \E d \in Deliveries, r \in 1..Len(AiResponses) : AiReturn(d, r)
    \/ \E d \in Deliveries, r \in 1..Len(SendResponses) : SendReturn(d, r)

Next == NextOver(PayloadIds)

Spec == Init /\ [][Next]_vars

\* The POST bodies of the fair specification: one message, two entries with
\* a message each, no message, a first message without from.
LivePayloadIds == {1, 3, 7, 14}

LiveNext == NextOver(LivePayloadIds)

\* Threads are scheduled fairly: a step the program itself can take is
\* eventually taken.  Whether and when the AI service or the send API
\* responds is up to them.
FairSpec ==
    /\ Init /\ [][LiveNext]_vars
    /\ \A d \in Deliveries : /\ WF_vars(Respond(d))
                             /\ WF_vars(Iterate(d))
                             /\ WF_vars(Add(d))

\* The POST bodies of the specification of both routes: one message, a
\* first message without from.
WebhookPayloadIds == {1, 14}

\* The steps of both routes.
WebhookNext ==
    \/ NextOver(WebhookPayloadIds)
    \/ \E mode \in ModeArgs, token \in TokenArgs, challenge \in ChallengeArgs :
           Verify(mode, token, challenge)

WebhookSpec == Init /\ [][WebhookNext]_vars

----------------------------------------------------------------------------
\* Notions the properties are stated with

\* v is an object with key k
HasKey(v, k) == v.t = "obj" /\ k \in DOMAIN v.f

\* the elements of the array under key k of object v (none otherwise)
ArrayAt(v, k) == IF HasKey(v, k) /\ v.f[k].t = "arr" THEN v.f[k].a ELSE <<>>

\* the changes of all entries of an envelope, in order
AllChanges(body) ==
    LET es == ArrayAt(body, "entry")
    IN Flatten([i \in 1..Len(es) |-> ArrayAt(es[i], "changes")])

\* the messages array of a change
MessagesOf(change) ==
    IF HasKey(change, "value") THEN ArrayAt(change.f.value, "messages") ELSE <<>>

\* the first messages of the changes that have a non-empty messages array
FirstMessages(body) ==
    LET cs == AllChanges(body)
    IN Flatten([i \in 1..Len(cs) |->
                  IF MessagesOf(cs[i]) = <<>> THEN <<>>
                  ELSE <<MessagesOf(cs[i])[1]>>])

\* a message with id, from and text.body
WellFormed(m) ==
    /\ HasKey(m, "id") /\ HasKey(m, "from")
    /\ HasKey(m, "text") /\ HasKey(m.f.text, "body")

\* A malformed POST body: no entry, no changes, no or empty messages array,
\* or a first message missing id, from or text.body.
Malformed(body) ==
    LET ms == FirstMessages(body)
    IN ms = <<>> \/ ~WellFormed(ms[1])

MalformedPayload == [p \in PayloadIds |-> Malformed(Payloads[p])]

\* number of changes of payload p with a non-empty messages array
QualifyingChanges == [p \in PayloadIds |-> Len(FirstMessages(Payloads[p]))]

\* the ids of the first messages of payload p
FirstIds ==
    [p \in PayloadIds |->
       LET ms == FirstMessages(Payloads[p])
       IN {ms[i].f.id : i \in {j \in 1..Len(ms) : HasKey(ms[j], "id")}}]

\* An Answer Client failure: transport error, non-200 status, a 200 body that
\* is not JSON or not an object, or a 200 object without a response field.
AiFailed(r) ==
    \/ r.exc
    \/ r.status # 200
    \/ IsRaise(r.json)
    \/ ~HasKey(r.json, "response")

\* the Answer Client call of the current message of d has failed and its
\* send request has been issued
FailedAndSending(d) ==
    /\ wpc[d] = "send"
    /\ AiFailed(AiResponses[ai_response[d]])

----------------------------------------------------------------------------
\* Properties

\* C1: two deliveries never both pass the dedup check (and call the Answer
\* Client) with the same message id, whatever the interleaving of their
\* workers.  Violated: the membership test and the add are two steps.
C1_AtMostOneDeliveryPasses ==
    \A d1, d2 \in Deliveries :
        d1 # d2 => answered[d1] \cap answered[d2] = {}

\* C2: a delivery that arrives when the id of its first message is already
\* recorded makes no Answer Client call and no Reply Sender call.
C2_ReplayMakesNoCalls ==
    \A d \in Deliveries : replay[d] => nAi[d] = 0 /\ nSend[d] = 0

\* a replayed delivery whose worker has returned as a duplicate
C2_Witness ==
    \E d \in Deliveries :
        /\ replay[d] /\ wpc[d] = "done" /\ exit[d] = "duplicate"
        /\ \E e \in Deliveries : e # d /\ send_response[e] # 0

\* C3: every HTTP response of POST /webhook is 200 "ok", whatever the shape
\* of the body and however the worker ended.
C3_AlwaysOk ==
    \A d \in Deliveries :
        hpc[d] = "returned" => http[d] = [status |-> 200, body |-> "ok"]

\* a response returned after the worker of the delivery hit an exception on
\* a body that is not an object
C3_Witness ==
    \E d \in Deliveries :
        /\ hpc[d] = "returned" /\ http[d].status = 200
        /\ exit[d] = "exception" /\ Payloads[data[d]].t # "obj"

\* C4: the response of a delivery can be returned whatever its worker is
\* doing, and once the worker thread is started the response is eventually
\* returned, even if no outbound call ever concludes.
C4_AckNeverWaits ==
    /\ [](\A d \in Deliveries : hpc[d] = "started" => ENABLED Respond(d))
    /\ \A d \in Deliveries : (hpc[d] = "started") ~> (hpc[d] = "returned")

\* a response returned while the Answer Client call is outstanding
C4_Witness ==
    \E d \in Deliveries : hpc[d] = "returned" /\ wpc[d] = "ai"

\* C5: a delivery with a malformed body makes no outbound call.
C5_MalformedMakesNoCalls ==
    \A d \in Deliveries :
        (data[d] # 0 /\ MalformedPayload[data[d]])
            => nAi[d] = 0 /\ nSend[d] = 0

\* the worker of a delivery whose first message lacks a field has ended in
\* the outer except clause
C5_Witness ==
    \E d \in Deliveries :
        /\ data[d] # 0 /\ MalformedPayload[data[d]]
        /\ FirstMessages(Payloads[data[d]]) # <<>>
        /\ wpc[d] = "done" /\ exit[d] = "exception"

\* C6 as stated: whenever the Answer Client call of an accepted delivery
\* fails in any way, a call that gets no answer (timeout) included, the
\* worker sends, to the sender, a non-empty fallback text, and that send is
\* the only one of the delivery.  Violated: neither request carries a
\* timeout, so a call that gets no answer never ends and no fallback is sent
\* (C8); and a delivery with several changes sends once per message (C9).
C6_FallbackAfterAnyFailure ==
    /\ [][\A d \in Deliveries :
            (wpc[d] = "ai" /\ wpc'[d] # "ai"
                 /\ AiFailed(AiResponses[ai_response'[d]]))
            => /\ wpc'[d] = "send"
               /\ nSend'[d] = 1
               /\ send_request'[d].to = msg[d].sender
               /\ send_request'[d].text.body.t = "str"
               /\ send_request'[d].text.body.s # ""]_vars
    /\ \A d \in Deliveries : (wpc[d] = "ai") ~> (wpc[d] = "send")

\* C7 as stated: all failures yield the same reply text.  Violated: the
\* three branches use three texts.
C7_SingleFallback ==
    \A d1, d2 \in Deliveries :
        (FailedAndSending(d1) /\ FailedAndSending(d2))
            => send_request[d1].text.body = send_request[d2].text.body

\* C7 amended: the reply text after a failure is fixed by the kind of
\* failure: an exception (transport error, a 200 body that is not JSON or
\* not an object) gives "AI unavailable.", a status other than 200 gives
\* "AI service failed.", a 200 object without response gives "No response
\* from model.".
C7_FallbackByKind ==
    \A d \in Deliveries :
        FailedAndSending(d) =>
            LET r == AiResponses[ai_response[d]]
                body == send_request[d].text.body
            IN /\ r.exc => body = JStr("⚠ AI unavailable.")
               /\ (~r.exc /\ r.status # 200) => body = JStr("⚠ AI service failed.")
               /\ (~r.exc /\ r.status = 200 /\ (IsRaise(r.json) \/ r.json.t # "obj"))
                     => body = JStr("⚠ AI unavailable.")
               /\ (~r.exc /\ r.status = 200 /\ r.json.t = "obj")
                     => body = JStr("⚠ No response from model.")

\* two deliveries sending after failures of different kinds
C7_Witness ==
    \E d1, d2 \in Deliveries :
        /\ FailedAndSending(d1) /\ FailedAndSending(d2)
        /\ AiResponses[ai_response[d1]].exc
        /\ AiResponses[ai_response[d2]].status = 500

\* C8: a delivery that has passed the dedup check eventually has its send
\* concluded.  Violated: neither request carries a timeout, so a service
\* that never responds keeps the worker waiting forever.
C8_RunsToCompletion ==
    \A d \in Deliveries : (wpc[d] = "add") ~> (wpc[d] \in {"loop", "done"})

\* C9 as stated: one POST causes at most one Answer Client call and at most
\* one Reply Sender call.  Violated: the loops go on after a message.
C9_OneMessagePerPost ==
    \A d \in Deliveries : nAi[d] <= 1 /\ nSend[d] <= 1

\* C9 amended: the worker processes at most the first message of each
\* change with a non-empty messages array: it makes at most one Answer
\* Client call and one Reply Sender call per such change, and only for ids
\* of first messages.
C9_OneMessagePerChange ==
    \A d \in Deliveries :
        data[d] # 0 =>
            /\ nAi[d] <= QualifyingChanges[data[d]]
            /\ nSend[d] <= nAi[d]
            /\ answered[d] \subseteq FirstIds[data[d]]

\* a delivery that has made two Answer Client calls and two sends, and one
\* that has ended after the single call of a two-message array
C9_Witness ==
    /\ \E d \in Deliveries : nAi[d] = 2 /\ nSend[d] = 2
    /\ \E d \in Deliveries :
          /\ data[d] = 4 /\ exit[d] = "end" /\ nAi[d] = 1

\* the worker of e has issued a send request for id m
SentFor(e, m) ==
    /\ m \in answered[e]
    /\ nSend[e] > 0
    /\ nSend[e] = Cardinality(answered[e]) \/ m # msg[e].msg_id

\* C10 as stated: at most one send attempt is made per accepted message id,
\* and a delivery that has had a send attempt makes no further send call.
\* Violated: two deliveries of one id that both passed the dedup check (C1)
\* each send; and a delivery with several changes sends once per message
\* (C9).
C10_OneAttemptPerId ==
    [][\A d \in Deliveries :
         nSend'[d] # nSend[d]
         => /\ nSend[d] = 0
            /\ \A e \in Deliveries \ {d} : ~SentFor(e, msg[d].msg_id)]_vars

\* C11 as stated: the response to GET /webhook is 200 with the challenge as
\* body when the mode is "subscribe" and the token is the configured one
\* (an absent challenge being an empty body), and 403 with the fixed body in
\* every other case.  Violated: with a matching token and no challenge the
\* view returns (None, 200), which is answered with a 500.
C11_VerifyContract ==
    get_request.kind = "get" =>
        IF get_request.mode = JStr("subscribe")
              /\ get_request.token = JStr("@Naveen123")
        THEN /\ get_response.status = 200
             /\ get_response.body = get_request.challenge.s
        ELSE get_response = [status |-> 403, body |-> "Verification failed"]

\* the first messages of payload p
OwnMessages == [p \in PayloadIds |-> FirstMessages(Payloads[p])]

\* the outstanding calls of delivery d are those of first message m of its
\* own payload: question = m's text, and once the Answer Client call has
\* concluded, to = m's sender and, after a 200 with a response field,
\* body = that response
RelaysOwn(d, m) ==
    /\ WellFormed(m)
    /\ ai_request[d] # NoCall
    /\ ai_request[d].question = m.f.text.f.body
    /\ wpc[d] = "send" =>
          /\ send_request[d].to = m.f.from
          /\ ~AiFailed(AiResponses[ai_response[d]]) =>
                send_request[d].text.body
                   = AiResponses[ai_response[d]].json.f.response

\* C12: whatever the interleaving of the workers, the Answer Client call of
\* a delivery carries the text of a message of that delivery's own payload,
\* and its Reply Sender call carries that same message's sender and the
\* response string returned with 200 to its own Answer Client call.
C12_RelaysOwnMessage ==
    \A d \in Deliveries :
        wpc[d] \in {"ai", "send"} =>
            \E i \in 1..Len(OwnMessages[data[d]]) :
                RelaysOwn(d, OwnMessages[data[d]][i])

\* two deliveries with distinct ids, both with their send request
\* outstanding, one after a 200 with a response and one after a failure
C12_Witness ==
    \E d, e \in Deliveries :
        /\ data[d] = 1 /\ data[e] = 2
        /\ wpc[d] = "send" /\ wpc[e] = "send"
        /\ ~AiFailed(AiResponses[ai_response[d]])
        /\ AiFailed(AiResponses[ai_response[e]])
        /\ send_request[d].to = JStr("s1") /\ send_request[e].to = JStr("s2")
        /\ send_request[d].text.body = JStr("r1")

\* payload p has a well-formed message with a string id in its first change
LeadsWithMessage ==
    [p \in PayloadIds |->
       LET cs == AllChanges(Payloads[p])
       IN /\ cs # <<>>
          /\ MessagesOf(cs[1]) # <<>>
          /\ WellFormed(MessagesOf(cs[1])[1])
          /\ MessagesOf(cs[1])[1].f.id.t = "str"]

\* Delivery d was received after a failure of another delivery, its body
\* leads with a well-formed message whose id was not in the ledger then, and
\* no other delivery has accepted that id.
FreshAfterFailure(d) ==
    /\ hpc[d] # "idle"
    /\ after_failure[d]
    /\ LeadsWithMessage[data[d]]
    /\ ~replay[d]
    /\ \A e \in Deliveries \ {d} :
          OwnMessages[data[d]][1].f.id \notin answered[e]

\* C13: a well-formed delivery with a fresh id that is received after a
\* failure of another delivery (malformed payload, duplicate, Answer Client
\* failure, Reply Sender failure or exception) passes the dedup check, and
\* it is past its first message only with its own Answer Client call and
\* its own Reply Sender call made.
C13_FailureBlocksNothing ==
    \A d \in Deliveries :
        FreshAfterFailure(d) =>
            LET m == OwnMessages[data[d]][1]
            IN /\ (wpc[d] = "loop" /\ idx[d] = 1) =>
                     Pass(data[d], 1, processed_message_ids).kind = "fresh"
               /\ (wpc[d] \in {"ai", "send", "done"} \/ idx[d] > 1) =>
                     /\ m.f.id \in answered[d]
                     /\ nAi[d] >= 1
               /\ (wpc[d] = "ai" /\ idx[d] = 1) =>
                     ai_request[d].question = m.f.text.f.body
               /\ (wpc[d] = "send" /\ idx[d] = 1) =>
                     send_request[d].to = m.f.from
               /\ (wpc[d] \in {"send", "done"} \/ idx[d] > 1) => nSend[d] >= 1

\* a delivery with a fresh id, received after another delivery ended in the
\* except clause, has made both of its calls
C13_Witness ==
    \E d, e \in Deliveries :
        /\ d # e /\ exit[e] = "exception" /\ wpc[e] = "done"
        /\ FreshAfterFailure(d)
        /\ wpc[d] = "done" /\ nAi[d] = 1 /\ nSend[d] = 1
        /\ send_response[d] # 0

\* C14: no step of the program (a duplicate delivery, an answer failure, a
\* send failure and a verification request included) removes an id from
\* processed_message_ids.
C14_LedgerGrows ==
    [][processed_message_ids \subseteq processed_message_ids']_vars

\* an id is in the ledger after a duplicate delivery, an Answer Client
\* failure, a failed send and a verification request
C14_Witness ==
    /\ "m1" \in {v.s : v \in processed_message_ids}
    /\ get_request.kind = "get"
    /\ \E d, e \in Deliveries :
          /\ exit[d] = "duplicate"
          /\ ai_response[e] # 0
          /\ AiFailed(AiResponses[ai_response[e]])
          /\ send_response[e] # 0
          /\ SendResponses[send_response[e]].status # 200

\* The state of delivery d in the state machine of the design: Received
\* until a call is made, Deduped once its worker has returned at a
\* duplicate, Processing while the Answer Client call is outstanding,
\* Answered / AnswerFailed while the send request is outstanding, Sent /
\* SendFailed once the send request has concluded.
Phase(d) ==
    IF hpc[d] = "idle" THEN "Idle"
    ELSE IF exit[d] = "duplicate" THEN "Deduped"
    ELSE IF wpc[d] = "ai" THEN "Processing"
    ELSE IF wpc[d] = "send"
         THEN IF AiFailed(AiResponses[ai_response[d]])
              THEN "AnswerFailed" ELSE "Answered"
    ELSE IF send_response[d] # 0
         THEN IF SendResponses[send_response[d]].exc
                 \/ SendResponses[send_response[d]].status # 200
              THEN "SendFailed" ELSE "Sent"
    ELSE "Received"

\* the edges of the state machine of the design
DesignEdges ==
    { <<"Idle", "Received">>, <<"Received", "Deduped">>,
      <<"Received", "Processing">>,
      <<"Processing", "Answered">>, <<"Processing", "AnswerFailed">>,
      <<"Answered", "Sent">>, <<"Answered", "SendFailed">>,
      <<"AnswerFailed", "Sent">>, <<"AnswerFailed", "SendFailed">> }

\* the edges on which a worker goes on to the next entry/change
NextChangeEdges ==
    { <<"Sent", "Processing">>, <<"Sent", "Deduped">>,
      <<"SendFailed", "Processing">>, <<"SendFailed", "Deduped">> }

\* the send request of d is issued in this step, with the Answer Client call
\* of d outstanding before it and concluded after it
SendAfterAnswer(d) ==
    nSend'[d] # nSend[d] =>
        /\ Phase(d) = "Processing"
        /\ ai_response'[d] # 0
        /\ Phase(d)' \in {"Answered", "AnswerFailed"}

\* d makes no call and changes its state in no way in this step
Rests(d) ==
    /\ Phase(d)' = Phase(d)
    /\ nAi'[d] = nAi[d] /\ nSend'[d] = nSend[d]

\* C15 as stated: a delivery changes state only along the edges of the
\* design, its send request is issued only after its Answer Client call has
\* concluded, and it takes no step from Deduped, Sent or SendFailed.
\* Violated: from Sent and SendFailed the worker goes on to the next change.
C15_PerDeliveryOrdering ==
    [][\A d \in Deliveries :
         /\ Phase(d)' # Phase(d) => << Phase(d), Phase(d)' >> \in DesignEdges
         /\ SendAfterAnswer(d)
         /\ Phase(d) \in {"Deduped", "Sent", "SendFailed"} => Rests(d)]_vars

\* C15 amended: the state machine is run once per first message of an
\* entry/change: a delivery changes state only along the edges of the
\* design or, from Sent and from a SendFailed that came as an HTTP response,
\* on to Processing or Deduped for the next change; its send request is
\* issued only after its Answer Client call has concluded; and it takes no
\* step from Deduped or from a send that raised.
C15_PerMessageOrdering ==
    [][\A d \in Deliveries :
         /\ Phase(d)' # Phase(d) =>
               << Phase(d), Phase(d)' >> \in DesignEdges \cup NextChangeEdges
         /\ SendAfterAnswer(d)
         /\ nAi'[d] # nAi[d] => Phase(d)' = "Processing"
         /\ Phase(d) = "Deduped" => Rests(d) /\ wpc'[d] = "done"
         /\ (Phase(d) = "SendFailed" /\ SendResponses[send_response[d]].exc)
               => Rests(d) /\ wpc'[d] = "done"]_vars

\* one delivery is in Processing for its second message after the send of
\* its first has concluded, and another one is Deduped after its send
C15_Witness ==
    \E d, e \in Deliveries :
        /\ data[d] = 3 /\ Phase(d) = "Processing" /\ nSend[d] = 1
        /\ data[e] = 18 /\ Phase(e) = "Deduped" /\ nSend[e] = 1

\* C16: an id for which an Answer Client call or a Reply Sender call has
\* been issued is in the ledger: the ids a delivery has made calls for are
\* recorded, the id of a message whose call is outstanding is recorded, and
\* no call is counted without such an id.
C16_RecordedBeforeCalls ==
    \A d \in Deliveries :
        /\ answered[d] \subseteq processed_message_ids
        /\ wpc[d] \in {"ai", "send"} =>
              /\ msg[d].msg_id \in processed_message_ids
              /\ msg[d].msg_id \in answered[d]
        /\ nAi[d] > 0 => answered[d] # {}
        /\ nSend[d] <= nAi[d]

\* a send request and an Answer Client call are outstanding, each for a
\* recorded id
C16_Witness ==
    \E d, e \in Deliveries :
        /\ wpc[d] = "send" /\ nSend[d] = 1
        /\ wpc[e] = "ai" /\ nAi[e] = 1
        /\ msg[d].msg_id # msg[e].msg_id
        /\ {msg[d].msg_id, msg[e].msg_id} \subseteq processed_message_ids

\* the ids of the well-formed first messages of payload p
WellFormedIds ==
    [p \in PayloadIds |->
       LET ms == OwnMessages[p]
       IN {ms[i].f.id : i \in {j \in 1..Len(ms) : WellFormed(ms[j])}}]

\* the ids that the deliveries have accepted
Accepted == UNION {answered[d] : d \in Deliveries}

\* C17: a message that is missing id, from or text.body leaves the ledger
\* unchanged: every id in the ledger is the id of a well-formed first message
\* that a delivery has accepted, and a worker returns as at a duplicate only
\* for such an id, so a malformed delivery carrying id m never makes a later
\* well-formed delivery of m a duplicate.
C17_MalformedLeavesLedger ==
    /\ processed_message_ids = Accepted
    /\ \A d \in Deliveries :
          /\ data[d] = 0 => answered[d] = {}
          /\ data[d] # 0 => answered[d] \subseteq WellFormedIds[data[d]]
          /\ exit[d] = "duplicate" => msg[d].msg_id \in Accepted

\* after a delivery carrying id m1 without a from or a text.body has ended
\* in the except clause, a well-formed delivery of m1 has found the id
\* absent and made its calls
C17_Witness ==
    \E d, e \in Deliveries :
        /\ data[e] \in {14, 15, 16} /\ wpc[e] = "done" /\ exit[e] = "exception"
        /\ answered[e] = {}
        /\ data[d] = 1 /\ after_failure[d] /\ ~replay[d]
        /\ answered[d] = {JStr("m1")} /\ nAi[d] = 1 /\ nSend[d] = 1

\* the call of the current message of e that concluded last has failed: its
\* Answer Client call (the send request is outstanding), or its send request
\* (by an exception, or by a response with a status other than 200)
FailedFor(e) ==
    \/ /\ wpc[e] = "send"
       /\ AiFailed(AiResponses[ai_response[e]])
    \/ /\ send_response[e] # 0
       /\ SendResponses[send_response[e]].exc
       /\ wpc[e] = "done" /\ exit[e] = "exception"
    \/ /\ send_response[e] # 0
       /\ ~SendResponses[send_response[e]].exc
       /\ SendResponses[send_response[e]].status # 200
       /\ \/ wpc[e] = "loop"
          \/ wpc[e] = "done" /\ exit[e] = "end"

\* the send request of the current message of e has failed
SendFailedFor(e) == FailedFor(e) /\ wpc[e] # "send"

\* C18 as stated: after a failure of the Answer Client or of the Reply
\* Sender for an accepted id m, m is in the ledger and stays in it, a
\* worker that tests m against the ledger finds it, and no reply is sent for
\* m after a SendFailed outcome.  Violated: a delivery of m that passed the
\* check before the add of the failed one (C1) still sends its reply.
C18_NoReplyAfterSendFailed ==
    [][\A d, e \in Deliveries :
         /\ FailedFor(e) =>
               /\ msg[e].msg_id \in processed_message_ids
               /\ msg[e].msg_id \in processed_message_ids'
         /\ (FailedFor(e) /\ wpc[d] = "loop"
                 /\ Pass(data[d], idx[d], {}).kind = "fresh"
                 /\ Pass(data[d], idx[d], {}).m.msg_id = msg[e].msg_id)
               => Pass(data[d], idx[d], processed_message_ids).kind
                     = "duplicate"
         /\ (SendFailedFor(e) /\ nSend'[d] # nSend[d])
               => msg[d].msg_id # msg[e].msg_id]_vars

\* the messages arrays of the changes of payload p, in order
ChangeMessages ==
    [p \in PayloadIds |->
       LET cs == AllChanges(Payloads[p])
       IN [j \in 1..Len(cs) |-> MessagesOf(cs[j])]]

\* the worker of d is about to handle a change whose first message is
\* well-formed and has an id that is in the ledger
AtDuplicate(d) ==
    /\ wpc[d] = "loop"
    /\ idx[d] <= Len(ChangeMessages[data[d]])
    /\ LET ms == ChangeMessages[data[d]][idx[d]]
       IN /\ ms # <<>>
          /\ WellFormed(ms[1])
          /\ ms[1].f.id \in processed_message_ids

\* the worker of d takes a step
Steps(d) ==
    wpc'[d] # wpc[d] \/ idx'[d] # idx[d] \/ nAi'[d] # nAi[d]
       \/ nSend'[d] # nSend[d] \/ answered'[d] # answered[d]

\* C19: a worker that comes to a change whose first message has an id in the
\* ledger returns at once, and a worker that has returned handles no later
\* entry/change of its payload, whether the id there is fresh or not.
C19_StopsAtFirstDuplicate ==
    [][\A d \in Deliveries :
         /\ (AtDuplicate(d) /\ Steps(d)) =>
               /\ wpc'[d] = "done" /\ exit'[d] = "duplicate"
               /\ idx'[d] = idx[d] /\ answered'[d] = answered[d]
         /\ wpc[d] = "done" => ~Steps(d)]_vars

\* a worker has returned at a duplicate in its first or second change while
\* the id of a later change of its payload is not in the ledger
C19_Witness ==
    \E d \in Deliveries :
        /\ data[d] \in {3, 18}
        /\ wpc[d] = "done" /\ exit[d] = "duplicate"
        /\ idx[d] < Len(ChangeMessages[data[d]])
        /\ JStr("m2") \notin processed_message_ids

====
